---- MODULE Spec2Model ----
(***************************************************************************)
(* Model of acts/controllers/gnssinst_lib/abstract_inst.py                 *)
(* (SocketInstrument: a SCPI command/response link over a stream socket).  *)
(*                                                                         *)
(* Text is a sequence of code points, wire data a sequence of bytes; the   *)
(* utf-8 codec between them is modelled for one- and two-byte sequences.   *)
(* Every call of the class is a sequence of steps of the calling thread,   *)
(* one step per operation on the underlying socket.                        *)
(*                                                                         *)
(* The second part models the throughput comparators of                    *)
(* acts/tests/google/wifi/WifiRvrTest.py (pass_fail_check) and of          *)
(* acts/test_utils/coex/CoexPerformanceBaseTest.py                         *)
(* (performance_baseline_check, throughput_pass_fail_check,                *)
(* get_throughput_limits): one step per pass of their loops.               *)
(*                                                                         *)
(* The third part models the other checks and helpers of the test classes: *)
(* the RSSI accuracy check of acts/tests/google/wifi/WifiRssiTest.py and   *)
(* Sl4aSession.terminate as acts/framework/tests/controllers/sl4a_lib/     *)
(* sl4a_session_test.py sets it up and calls it, get_atten_range of        *)
(* CoexPerformanceBaseTest.py, and the attenuation sweeps                  *)
(* WifiRvrTest.rvr_test and CoexPerformanceBaseTest.rvr_throughput.        *)
(***************************************************************************)
EXTENDS Integers, Sequences, FiniteSets, TLC

VARIABLES
    handle,     \* self._socket: 0 is None, otherwise the id of a socket
    sockState,  \* per socket id: "none" (not created), "open", "shut", "closed"
    rx,         \* bytes the peer has sent on the socket `handle` names, unread
    rxFor,      \* per byte of rx: the thread whose command it answers
    active,     \* the threads that call into the object
    allowed,    \* per thread: the calls its program makes
    mutex,      \* whether the callers hold a lock of their own around each call
    pc,         \* per thread: position inside the call in progress
    op,         \* per thread: the method called
    arg,        \* per thread: the command the caller passed
    cmd,        \* per thread: the cmd parameter of _send
    resp,       \* per thread: the local resp of _recv
    ops,        \* per thread: the socket operations of the call, in order
    result,     \* per thread: what the call returned or raised
    test,           \* the check that runs: "rvr", "coex" or "none"
    test_params,    \* abs_tolerance, pct_tolerance, failure_count_tolerance
    gldn_results,   \* the reference file and the dataset in it
    identity,       \* whether the measured sweep is the reference dataset
    num_points,     \* points of the measured sweep (of each level)
    num_levels,     \* BT attenuation levels measured (1 in the plain check)
    cpc,            \* position of the check
    bt_atten,       \* the level the check is at
    idx,            \* points of the level compared so far
    failure_count,  \* points found outside their limits so far
    point,          \* the point compared last, with its limits
    verdict,        \* what the check signalled or returned
    rssi_args,      \* pass_fail_check_rssi_accuracy: rssi_under_test,
                    \* absolute_accuracy and test_params["abs_tolerance"]
    rssi,           \* pass_fail_check_rssi_accuracy: its position and locals
    session,        \* an Sl4aSession: _terminated, the holder of
                    \* _terminate_lock, the calls of terminate in progress,
                    \* and how often the dispatcher and the RPC client were
                    \* closed
    atten_range,    \* get_atten_range: its arguments, position and locals
    sweep           \* an attenuation sweep: the range swept, the attenuator
                    \* setting, the lists the sweep fills and what it returned

\* what no step of the link changes
\* the inputs of a check and its progress
check_cfg == <<test, test_params, identity, num_points, num_levels>>
check_in == <<check_cfg, gldn_results>>
check_run == <<cpc, bt_atten, idx, failure_count, point, verdict>>

\* the variables of the instrument link
link == <<handle, sockState, rx, rxFor, active, allowed, mutex,
          pc, op, arg, cmd, resp, ops, result>>

\* the variables of the other checks and helpers
utils == <<rssi_args, rssi, session, atten_range, sweep>>

fixed == <<active, allowed, mutex, check_in, check_run, utils>>

vars == <<handle, sockState, rx, rxFor, fixed, pc, op, arg, cmd, resp, ops, result>>

----------------------------------------------------------------------------
(* Bounds of the model *)

\* the receive buffer size in bytes (1024 in __init__), scaled down
BufSize == 2
\* the longest byte stream the peer has in flight
MaxResp == 4
\* the number of socket ids
MaxSockets == 2

Threads == {"t1", "t2"}
Sockets == 1..MaxSockets
None == 0

----------------------------------------------------------------------------
(* Text, bytes and the utf-8 codec *)

escseq == <<10>>                       \* '\n'
OpcSuffix == <<59, 42, 79, 80, 67, 63>> \* ';*OPC?'
\* the identification command with its question mark left out
IdnCmdNoMark == <<42, 73, 68, 78>>
IdnCmd == <<42, 73, 68, 78, 63>>        \* '*IDN?'
RstCmd == <<42, 82, 83, 84>>            \* '*RST'

\* commands the callers pass: '*RST', 'é' and ''
Commands == {RstCmd, <<233>>, <<>>}

\* code points the instrument answers with: '1', '\n', 'é'
RespChars == {49, 10, 233}

\* str.encode('utf-8') of one code point below 2048
EncodeChar(c) ==
    IF c < 128 THEN <<c>> ELSE <<192 + (c \div 64), 128 + (c % 64)>>

RECURSIVE Encode(_)
Encode(s) == IF s = <<>> THEN <<>> ELSE EncodeChar(Head(s)) \o Encode(Tail(s))

\* bytes.decode('utf-8'): the text, or a UnicodeDecodeError
RECURSIVE Decode(_)
Decode(b) ==
    IF b = <<>> THEN [ok |-> TRUE, text |-> <<>>]
    ELSE IF b[1] < 128
    THEN LET r == Decode(Tail(b))
         IN  [ok |-> r.ok, text |-> <<b[1]>> \o r.text]
    ELSE IF b[1] >= 194 /\ b[1] <= 223 /\ Len(b) >= 2
            /\ b[2] >= 128 /\ b[2] <= 191
    THEN LET r == Decode(Tail(Tail(b)))
         IN  [ok |-> r.ok, text |-> <<(b[1] - 192) * 64 + (b[2] - 128)>> \o r.text]
    ELSE [ok |-> FALSE, text |-> <<>>]

\* str.rstrip(chars): drop every trailing character that is in chars
RECURSIVE RStrip(_, _)
RStrip(s, chars) ==
    IF s # <<>> /\ \E i \in 1..Len(chars) : chars[i] = s[Len(s)]
    THEN RStrip(SubSeq(s, 1, Len(s) - 1), chars)
    ELSE s

RECURSIVE StringsUpTo(_)
StringsUpTo(n) ==
    IF n = 0 THEN {<<>>}
    ELSE LET shorter == StringsUpTo(n - 1)
         IN  shorter \cup {Append(s, c) : s \in shorter, c \in RespChars}

\* the byte streams an instrument may answer a command with
Responses == {b \in {Encode(s) : s \in StringsUpTo(MaxResp)} : Len(b) <= MaxResp}

----------------------------------------------------------------------------
(* Exceptions and results *)

Exc(type) == [type |-> type, msg |-> "", cmd |-> <<>>, context |-> "None"]

\* SocketInstrumentError(errmsg) raised while `context` is being handled: the
\* message, the command the message quotes, and the exception it replaces
SocketInstrumentError(errmsg, command, context) ==
    [type |-> "SocketInstrumentError", msg |-> errmsg, cmd |-> command,
     context |-> context]

NoResult == [status |-> "none", value |-> <<>>, exc |-> Exc("None")]
Returned(v) == [status |-> "return", value |-> v, exc |-> Exc("None")]
Raised(e) == [status |-> "raise", value |-> <<>>, exc |-> e]

\* except clauses that catch socket.error alone: a timeout leaves as it is
ConnectExceptTimeoutBare(e) ==
    IF e.type = "socket.error"
    THEN SocketInstrumentError("Socket error while connecting to instrument.",
                               <<>>, e.type)
    ELSE e
\* the except clauses of _connect_socket, applied to what its try block raises
ConnectExcept(e) ==
    IF e.type = "socket.timeout"
    THEN SocketInstrumentError("Socket timeout while connecting to instrument.",
                               <<>>, e.type)
    ELSE IF e.type = "socket.error"
    THEN SocketInstrumentError("Socket error while connecting to instrument.",
                               <<>>, e.type)
    ELSE e

\* except clauses whose last clause also raises SocketInstrumentError
SendExceptWrapAll(e, c) ==
    IF e.type = "socket.timeout"
    THEN SocketInstrumentError(
             "Socket timeout while sending command {} to instrument.", c, e.type)
    ELSE SocketInstrumentError(
             "Socket error while sending command {} to instrument.", c, e.type)
\* the except clauses of _send
SendExcept(e, c) ==
    IF e.type = "socket.timeout"
    THEN SocketInstrumentError(
             "Socket timeout while sending command {} to instrument.", c, e.type)
    ELSE IF e.type = "socket.error"
    THEN SocketInstrumentError(
             "Socket error while sending command {} to instrument.", c, e.type)
    ELSE e

\* the except clauses of _recv
RecvExcept(e) ==
    IF e.type = "socket.timeout"
    THEN SocketInstrumentError(
             "Socket timeout while receiving response from instrument.", <<>>, e.type)
    ELSE IF e.type = "socket.error"
    THEN SocketInstrumentError(
             "Socket error while receiving response from instrument.", <<>>, e.type)
    ELSE e

\* an except clause that raises SocketInstrumentError, as those of the other
\* methods do
CloseExceptWrapped(e) ==
    SocketInstrumentError("Error {} while closing instrument.", <<>>, e.type)
\* the except clause of _close_socket: log and re-raise
CloseExcept(e) == e

\* a query that sends the command alone
QueryCmdNoSuffix(c) == c
\* _query(cmd) sends cmd + ';*OPC?'
QueryCmd(c) == c \o OpcSuffix

\* _send(cmd) writes (cmd + self._escseq).encode(self._codefmt)
SendData(c) == Encode(c \o escseq)

\* the loop test with the comparison turned round
LoopEndsReversed(resp_tmp) == Len(resp_tmp) > BufSize
\* the test that ends the loop of _recv, on the decoded chunk
LoopEnds(resp_tmp) == Len(resp_tmp) < BufSize

\* what _recv returns for the accumulated text
RecvValue(text) == RStrip(text, escseq)

----------------------------------------------------------------------------
(* The socket layer *)

Live(s) == sockState[s] \in {"open", "shut"}

Min(a, b) == IF a < b THEN a ELSE b

\* outcomes of socket.create_connection
CreateFailures == {"socket.timeout", "socket.error"}

\* outcomes of sendall on socket s
SendOutcomes(s) ==
    IF sockState[s] = "open" THEN {"ok", "socket.timeout", "socket.error"}
    ELSE {"socket.error"}

\* failures of recv on socket s
RecvFailures(s) ==
    IF sockState[s] = "open" THEN {"socket.timeout", "socket.error"}
    ELSE {"socket.error"}

\* byte counts recv(BufSize) may return on socket s: part of what is in flight,
\* or nothing once the peer has closed (or the socket was shut down)
RecvCounts(s) ==
    IF sockState[s] = "open"
    THEN IF rx = <<>> THEN {0} ELSE 1..Min(Len(rx), BufSize)
    ELSE IF sockState[s] = "shut" THEN {0} ELSE {}

\* outcomes of shutdown(SHUT_RDWR) on socket s
ShutdownOutcomes(s) ==
    IF sockState[s] = "closed" THEN {"socket.error"} ELSE {"ok", "socket.error"}

\* outcomes of close() on socket s; the descriptor is released either way
CloseOutcomes(s) ==
    IF sockState[s] = "closed" THEN {"ok"} ELSE {"ok", "socket.error"}

Event(o, s, data, out) ==
    [op |-> o, sock |-> s,
     st |-> IF s = None THEN "none" ELSE sockState[s],
     data |-> data, out |-> out, for |-> {}]

----------------------------------------------------------------------------
(* State after __init__ *)

\* the object after __init__, used by threads whose programs make the calls al
LinkStart(al, lock) ==
    /\ handle = None
    /\ sockState = [s \in Sockets |-> "none"]
    /\ rx = <<>>
    /\ rxFor = <<>>
    /\ active = {t \in Threads : al[t] # {}}
    /\ allowed = al
    /\ mutex = lock
    /\ pc = [t \in Threads |-> "idle"]
    /\ op = [t \in Threads |-> "none"]
    /\ arg = [t \in Threads |-> <<>>]
    /\ cmd = [t \in Threads |-> <<>>]
    /\ resp = [t \in Threads |-> <<>>]
    /\ ops = [t \in Threads |-> <<>>]
    /\ result = [t \in Threads |-> NoResult]

\* a call: the method and the command passed
Call(m, c) == [m |-> m, c |-> c]

\* the calls a program can make
AllCalls ==
    {Call("connect", <<>>), Call("recv", <<>>), Call("close", <<>>)}
        \cup {Call(m, c) : m \in {"send", "query"}, c \in Commands}

\* a dataset file: whether it can be loaded, and attenuation, fixed offset
\* and throughput of the dataset in it
Dataset(f, att, fx, thr) ==
    [file |-> f, attenuation |-> att, fixed_attenuation |-> fx,
     throughput |-> thr]

\* a compared point: effective attenuation, measured throughput, the reference
\* indices chosen, the limits in hundredths, and whether it is beyond them
Point(att, thr, closest, lower, upper, failed) ==
    [att |-> att, throughput |-> thr, closest |-> closest,
     lower |-> lower, upper |-> upper, failed |-> failed]

NoPoint == Point(0, 0, <<>>, 0, 0, FALSE)

\* what a check ends with: the signal raised (pass, fail, or an exception and
\* its type), the value throughput_pass_fail_check returned and the value
\* performance_baseline_check returned
Verdict(signal, exc, tpfc, baseline) ==
    [signal |-> signal, exc |-> exc, tpfc |-> tpfc, baseline |-> baseline]

NoVerdict == Verdict("none", "None", "none", "none")

\* no check has been started
NoCheck ==
    /\ test = "none"
    /\ test_params = [abs_tolerance |-> 0, pct_tolerance |-> 0,
                      failure_count_tolerance |-> 0]
    /\ gldn_results = Dataset("missing", <<>>, 0, <<>>)
    /\ identity = FALSE
    /\ num_points = 0
    /\ num_levels = 0
    /\ cpc = "idle"
    /\ bt_atten = 0
    /\ idx = 0
    /\ failure_count = 0
    /\ point = NoPoint
    /\ verdict = NoVerdict

\* a number as the checks compute with it: nan, or the fraction num / den
Float(n, d) == [nan |-> FALSE, num |-> n, den |-> d]

\* RSSI_ERROR_VAL = float("nan")
RSSI_ERROR_VAL == [nan |-> TRUE, num |-> 0, den |-> 1]

\* the keys of postprocessed_results, in the order of the OrderedDict
ResultKeys ==
    <<"signal_poll_rssi", "signal_poll_avg_rssi", "scan_rssi",
      "chain_0_rssi", "chain_1_rssi", "total_attenuation", "predicted_rssi">>

\* no RSSI check has been started
NoRssi ==
    /\ rssi_args = [rssi_under_test |-> {}, absolute_accuracy |-> FALSE,
                    abs_tolerance |-> 0]
    /\ rssi = [pc |-> "idle", key |-> 0, val |-> <<>>,
               avg_error |-> Float(0, 1), avg_shift |-> Float(0, 1),
               test_message |-> <<>>, test_failed |-> FALSE,
               signal |-> "none"]

\* a session: the flag, the lock, per thread the position in terminate, what
\* the flag was when the call started and the calls made, and the calls the
\* event dispatcher and the RPC client have had
Session(terminated, made) ==
    [terminated |-> terminated,
     terminate_lock |-> "free",
     at |-> [t \in Threads |-> "idle"],
     was |-> [t \in Threads |-> FALSE],
     made |-> [t \in Threads |-> made],
     dispatcher_close |-> 0,
     rpc_terminate |-> 0]

\* no session is in use
NoSession == session = Session(TRUE, 0)

\* a call of get_atten_range(start, stop, step)
RangeCall(start, stop, step, at) ==
    [start |-> start, stop |-> stop, step |-> step, pc |-> at,
     atten_step |-> 0, x |-> 0, value |-> <<>>]

\* get_atten_range is not being called
NoRange == atten_range = RangeCall(0, 0, 1, "idle")

\* a sweep of `which` test over the attenuations `range`, behind the fixed
\* attenuation fx: the attenuator setting, the attenuations recorded, the
\* throughputs collected, per measurement the setting it ran at and how it
\* went, and what the sweep returned
Sweep(which, at, range, fx, client_output, func) ==
    [test |-> which, pc |-> at, range |-> range, fixed_attenuation |-> fx,
     use_client_output |-> client_output, called_func |-> func,
     set_atten |-> 0, attenuation |-> <<>>, received |-> <<>>,
     measured |-> <<>>, returned |-> <<>>]

\* no sweep is running
NoSweep == sweep = Sweep("none", "idle", <<>>, 0, FALSE, FALSE)

\* none of the other checks and helpers has been started
NoUtil == NoRssi /\ NoSession /\ NoRange /\ NoSweep

\* the object and its callers
Start(al, lock) == LinkStart(al, lock) /\ NoCheck /\ NoUtil

\* one thread uses the object
Init == Start([t \in Threads |-> IF t = "t1" THEN AllCalls ELSE {}], FALSE)

\* two threads share the object, each with commands of its own
InitSerial ==
    Start([t \in Threads |->
              IF t = "t1"
              THEN {Call("connect", <<>>), Call("query", RstCmd),
                    Call("close", <<>>)}
              ELSE {Call("query", <<233>>), Call("send", <<233>>),
                    Call("recv", <<>>)}],
          TRUE)

\* one thread uses the object and a second one closes it at any moment
InitClose ==
    Start([t \in Threads |->
              IF t = "t1"
              THEN {Call("connect", <<>>), Call("recv", <<>>),
                    Call("send", RstCmd), Call("query", RstCmd)}
              ELSE {Call("close", <<>>)}],
          FALSE)

\* an exception leaving the call of thread t; inside _connect_socket it passes
\* the except clauses of that method on its way out
Leaving(t, e) == IF op[t] = "connect" THEN ConnectExcept(e) ELSE e

\* callers that serialize their calls start one when no other is in progress
MayEnter(t) == mutex => \A u \in Threads \ {t} : pc[u] = "idle"

\* thread t enters method m with command c, next step at position p
Enter(t, m, c, command, p) ==
    /\ pc[t] = "idle"
    /\ Call(m, c) \in allowed[t]
    /\ MayEnter(t)
    /\ pc' = [pc EXCEPT ![t] = p]
    /\ op' = [op EXCEPT ![t] = m]
    /\ arg' = [arg EXCEPT ![t] = c]
    /\ cmd' = [cmd EXCEPT ![t] = command]
    /\ resp' = [resp EXCEPT ![t] = <<>>]
    /\ ops' = [ops EXCEPT ![t] = <<>>]
    /\ result' = [result EXCEPT ![t] = NoResult]
    /\ UNCHANGED <<handle, sockState, rx, rxFor, fixed>>

\* the call of thread t ends with result r
Finish(t, r) ==
    /\ pc' = [pc EXCEPT ![t] = "done"]
    /\ result' = [result EXCEPT ![t] = r]

----------------------------------------------------------------------------
(* Calls *)

\* _connect_socket()
CallConnect(t) == Enter(t, "connect", <<>>, <<>>, "create")

\* _send(c)
CallSend(t, c) == Enter(t, "send", c, c, "sendall")

\* _recv()
CallRecv(t) == Enter(t, "recv", <<>>, <<>>, "recv")

\* _query(c): self._send(c + ';*OPC?') and then self._recv()
CallQuery(t, c) == Enter(t, "query", c, QueryCmd(c), "sendall")

\* _close_socket(): returns at once when self._socket is not set
CallClose(t) ==
    /\ pc[t] = "idle"
    /\ Call("close", <<>>) \in allowed[t]
    /\ MayEnter(t)
    /\ op' = [op EXCEPT ![t] = "close"]
    /\ arg' = [arg EXCEPT ![t] = <<>>]
    /\ cmd' = [cmd EXCEPT ![t] = <<>>]
    /\ resp' = [resp EXCEPT ![t] = <<>>]
    /\ ops' = [ops EXCEPT ![t] = <<>>]
    /\ IF handle = None
       THEN Finish(t, Returned(<<>>))
       ELSE /\ pc' = [pc EXCEPT ![t] = "shutdown"]
            /\ result' = [result EXCEPT ![t] = NoResult]
    /\ UNCHANGED <<handle, sockState, rx, rxFor, fixed>>

----------------------------------------------------------------------------
(* Steps *)

\* the smallest socket id that names no socket in use
FreshSocket ==
    LET free == {s \in Sockets : s # handle /\ ~Live(s)}
    IN  IF free = {} THEN None
        ELSE CHOOSE s \in free : \A u \in free : s <= u

\* self._socket = socket.create_connection(...), then resp = self._query('*IDN?')
Create(t) ==
    /\ pc[t] = "create"
    /\ \/ /\ FreshSocket # None
          /\ LET s == FreshSocket
             IN  /\ sockState' = [sockState EXCEPT ![s] = "open"]
                 /\ handle' = s
                 /\ ops' = [ops EXCEPT ![t] = Append(@, Event("create", s, <<>>, "ok"))]
          /\ rx' = <<>>
          /\ rxFor' = <<>>
          /\ cmd' = [cmd EXCEPT ![t] = QueryCmd(IdnCmd)]
          /\ pc' = [pc EXCEPT ![t] = "sendall"]
          /\ UNCHANGED <<result>>
       \/ /\ \E e \in CreateFailures :
                /\ ops' = [ops EXCEPT ![t] = Append(@, Event("create", None, <<>>, e))]
                /\ Finish(t, Raised(ConnectExcept(Exc(e))))
          /\ UNCHANGED <<handle, sockState, rx, rxFor, cmd>>
    /\ UNCHANGED <<fixed, op, arg, resp>>

\* a _send that stays at sendall and sends again after a failure
OnSendFailureRetry(t, e) == UNCHANGED <<pc, result, rx, rxFor>>
\* sendall raised e: _send raises, nothing is sent again
OnSendFailure(t, e) ==
    /\ Finish(t, Raised(Leaving(t, SendExcept(Exc(e), cmd[t]))))
    /\ UNCHANGED <<rx, rxFor>>

\* self._socket.sendall(cmd_es.encode(self._codefmt)); the instrument may answer
SendAll(t) ==
    /\ pc[t] = "sendall"
    /\ IF handle = None
       THEN /\ Finish(t, Raised(Leaving(t, SendExcept(Exc("AttributeError"), cmd[t]))))
            /\ UNCHANGED <<rx, rxFor, ops>>
       ELSE \E out \in SendOutcomes(handle) :
              /\ ops' = [ops EXCEPT
                            ![t] = Append(@, Event("sendall", handle, SendData(cmd[t]), out))]
              /\ IF out = "ok"
                 THEN /\ \E r \in Responses :
                            /\ Len(rx) + Len(r) <= MaxResp
                            /\ rx' = rx \o r
                            /\ rxFor' = rxFor \o [i \in 1..Len(r) |-> t]
                      /\ IF op[t] = "send"
                         THEN Finish(t, Returned(<<>>))
                         ELSE /\ pc' = [pc EXCEPT ![t] = "recv"]
                              /\ UNCHANGED result
                 ELSE OnSendFailure(t, out)
    /\ UNCHANGED <<handle, sockState, fixed, op, arg, cmd, resp>>

\* thread w waits in recv for bytes that have not come
Pending(w) == pc[w] = "recv" /\ handle # None /\ rx = <<>>

\* the recv thread t waits in has been woken by a shutdown of its socket
Unblocked(t) == ops[t] # <<>> /\ ops[t][Len(ops[t])].op = "unblock"

\* what the call returns once _recv has returned text
ReturnValue(t, text) == IF op[t] = "connect" THEN <<>> ELSE text

\* one pass of the loop of _recv: recv, decode, append, test
Recv(t) ==
    /\ pc[t] = "recv"
    /\ IF Unblocked(t)
       THEN LET s == ops[t][Len(ops[t])].sock
            IN  \/ /\ ops' = [ops EXCEPT
                                 ![t] = Append(@, Event("recv", s, <<>>, "ok"))]
                   /\ IF LoopEnds(<<>>)
                      THEN Finish(t, Returned(
                               ReturnValue(t, RecvValue(resp[t]))))
                      ELSE UNCHANGED <<pc, result>>
                   /\ UNCHANGED <<rx, rxFor, resp>>
                \/ /\ ops' = [ops EXCEPT
                                 ![t] = Append(@, Event("recv", s, <<>>,
                                                        "socket.error"))]
                   /\ Finish(t, Raised(Leaving(t,
                                 RecvExcept(Exc("socket.error")))))
                   /\ UNCHANGED <<rx, rxFor, resp>>
       ELSE IF handle = None
       THEN /\ Finish(t, Raised(Leaving(t, RecvExcept(Exc("AttributeError")))))
            /\ UNCHANGED <<rx, rxFor, ops, resp>>
       ELSE \/ \E n \in RecvCounts(handle) :
                 LET chunk == SubSeq(rx, 1, n)
                     d == Decode(chunk)
                 IN  /\ rx' = SubSeq(rx, n + 1, Len(rx))
                     /\ rxFor' = SubSeq(rxFor, n + 1, Len(rxFor))
                     /\ ops' = [ops EXCEPT
                                   ![t] = Append(@,
                                       [Event("recv", handle, chunk, "ok") EXCEPT
                                           !.for = {rxFor[i] : i \in 1..n}])]
                     /\ IF ~d.ok
                        THEN /\ Finish(t, Raised(Leaving(t,
                                      RecvExcept(Exc("UnicodeDecodeError")))))
                             /\ UNCHANGED resp
                        ELSE /\ resp' = [resp EXCEPT ![t] = @ \o d.text]
                             /\ IF LoopEnds(d.text)
                                THEN Finish(t, Returned(
                                         ReturnValue(t, RecvValue(resp'[t]))))
                                ELSE UNCHANGED <<pc, result>>
            \/ \E e \in RecvFailures(handle) :
                 /\ ops' = [ops EXCEPT
                               ![t] = Append(@, Event("recv", handle, <<>>, e))]
                 /\ Finish(t, Raised(Leaving(t, RecvExcept(Exc(e)))))
                 /\ UNCHANGED <<rx, rxFor, resp>>
    /\ UNCHANGED <<handle, sockState, fixed, op, arg, cmd>>

\* self._socket.shutdown(socket.SHUT_RDWR)
Shutdown(t) ==
    /\ pc[t] = "shutdown"
    /\ IF handle = None
       THEN /\ Finish(t, Raised(CloseExcept(Exc("AttributeError"))))
            /\ UNCHANGED <<sockState, ops>>
       ELSE \E out \in ShutdownOutcomes(handle) :
              /\ ops' = [w \in Threads |->
                            IF w = t
                            THEN Append(ops[w],
                                        Event("shutdown", handle, <<>>, out))
                            ELSE IF out = "ok" /\ Pending(w)
                            THEN Append(ops[w],
                                        Event("unblock", handle, <<>>, out))
                            ELSE ops[w]]
              /\ IF out = "ok"
                 THEN /\ sockState' = [sockState EXCEPT ![handle] = "shut"]
                      /\ pc' = [pc EXCEPT ![t] = "sockclose"]
                      /\ UNCHANGED result
                 ELSE /\ Finish(t, Raised(CloseExcept(Exc(out))))
                      /\ UNCHANGED sockState
    /\ UNCHANGED <<handle, rx, rxFor, fixed, op, arg, cmd, resp>>

\* self._socket.close() and, when it returns, self._socket = None
SockClose(t) ==
    /\ pc[t] = "sockclose"
    /\ IF handle = None
       THEN /\ Finish(t, Raised(CloseExcept(Exc("AttributeError"))))
            /\ UNCHANGED <<handle, sockState, rx, rxFor, ops>>
       ELSE \E out \in CloseOutcomes(handle) :
              /\ ops' = [ops EXCEPT
                            ![t] = Append(@, Event("close", handle, <<>>, out))]
              /\ sockState' = [sockState EXCEPT ![handle] = "closed"]
              /\ rx' = <<>>
              /\ rxFor' = <<>>
              /\ IF out = "ok"
                 THEN /\ handle' = None
                      /\ Finish(t, Returned(<<>>))
                 ELSE /\ Finish(t, Raised(CloseExcept(Exc(out))))
                      /\ UNCHANGED handle
    /\ UNCHANGED <<fixed, op, arg, cmd, resp>>

\* the caller takes the result; the thread is free for its next call
Return(t) ==
    /\ pc[t] = "done"
    /\ pc' = [pc EXCEPT ![t] = "idle"]
    /\ op' = [op EXCEPT ![t] = "none"]
    /\ arg' = [arg EXCEPT ![t] = <<>>]
    /\ cmd' = [cmd EXCEPT ![t] = <<>>]
    /\ resp' = [resp EXCEPT ![t] = <<>>]
    /\ ops' = [ops EXCEPT ![t] = <<>>]
    /\ result' = [result EXCEPT ![t] = NoResult]
    /\ UNCHANGED <<handle, sockState, rx, rxFor, fixed>>

\* a socket object self._socket no longer names is closed when it is collected
Finalize(s) ==
    /\ s # handle
    /\ Live(s)
    /\ sockState' = [sockState EXCEPT ![s] = "closed"]
    /\ UNCHANGED <<handle, rx, rxFor, fixed, pc, op, arg, cmd, resp, ops, result>>

Next ==
    \/ \E t \in active : CallConnect(t)
    \/ \E t \in active : \E c \in Commands : CallSend(t, c)
    \/ \E t \in active : CallRecv(t)
    \/ \E t \in active : \E c \in Commands : CallQuery(t, c)
    \/ \E t \in active : CallClose(t)
    \/ \E t \in active : Create(t)
    \/ \E t \in active : SendAll(t)
    \/ \E t \in active : Recv(t)
    \/ \E t \in active : Shutdown(t)
    \/ \E t \in active : SockClose(t)
    \/ \E t \in active : Return(t)
    \/ \E s \in Sockets : Finalize(s)

Spec == Init /\ [][Next]_vars

SpecClose == InitClose /\ [][Next]_vars

SpecSerial == InitSerial /\ [][Next]_vars

----------------------------------------------------------------------------
(* Claims *)

\* what thread t's finished call of method m looks like
Done(t, m) == t \in active /\ pc[t] = "done" /\ op[t] = m

\* C1: close() is idempotent. Whenever a call of close() has ended, either it
\* found no socket, did no socket operation and raised nothing, or it shut the
\* socket down, closed it and cleared the handle; in both cases the handle is
\* cleared afterwards, so that every further close() is a no-op.
C1_CloseIdempotent ==
    \A t \in active :
        Done(t, "close") =>
            /\ handle = None
            /\ \/ ops[t] = <<>> /\ result[t].status = "return"
               \/ /\ Len(ops[t]) = 2
                  /\ ops[t][1].op = "shutdown" /\ ops[t][1].out = "ok"
                  /\ ops[t][2].op = "close" /\ ops[t][2].sock = ops[t][1].sock
                  /\ sockState[ops[t][1].sock] = "closed"

\* C2: no send or receive is attempted on the transport unless the connection
\* holds a live socket (one that is open and not closed) at that moment.
C2_IoOnlyOnLiveSocket ==
    \A t \in active :
        \A i \in 1..Len(ops[t]) :
            ops[t][i].op \in {"sendall", "recv"} =>
                ops[t][i].sock # None /\ ops[t][i].st \in {"open", "shut"}

\* C3: at most one socket opened by the connection object is live at any time.
C3_AtMostOneLiveSocket == Cardinality({s \in Sockets : Live(s)}) <= 1

----------------------------------------------------------------------------
(* Helpers of the claims about one call's socket operations *)

\* the positions in thread t's call at which operation o was attempted
Attempts(t, o) == {i \in 1..Len(ops[t]) : ops[t][i].op = o}

RECURSIVE ReceivedUpTo(_, _)
\* the bytes the first n operations of thread t's call received, in order
ReceivedUpTo(t, n) ==
    IF n = 0 THEN <<>>
    ELSE ReceivedUpTo(t, n - 1)
             \o (IF ops[t][n].op = "recv" /\ ops[t][n].out = "ok"
                 THEN ops[t][n].data ELSE <<>>)

Received(t) == ReceivedUpTo(t, Len(ops[t]))

\* '*RST;*OPC?\n' and '*IDN?;*OPC?\n' as bytes on the wire
RstQueryBytes == <<42, 82, 83, 84, 59, 42, 79, 80, 67, 63, 10>>
IdnQueryBytes == <<42, 73, 68, 78, 63, 59, 42, 79, 80, 67, 63, 10>>

\* C4: query(command) first sends exactly the bytes of command, then ';*OPC?',
\* then the terminator; every receive of the call comes after that send has
\* completed; and what it returns is the result of that receive.
C4_QuerySendsThenReceives ==
    \A t \in active :
        op[t] = "query" =>
            /\ \A i \in 1..Len(ops[t]) :
                  IF i = 1
                  THEN /\ ops[t][1].op = "sendall"
                       /\ ops[t][1].data =
                              Encode(arg[t]) \o <<59, 42, 79, 80, 67, 63>> \o <<10>>
                       /\ arg[t] = RstCmd => ops[t][1].data = RstQueryBytes
                  ELSE ops[t][i].op = "recv" /\ ops[t][1].out = "ok"
            /\ pc[t] = "recv" => Len(ops[t]) >= 1 /\ ops[t][1].out = "ok"
            /\ (pc[t] = "done" /\ result[t].status = "return") =>
                  /\ Len(ops[t]) >= 2
                  /\ ops[t][Len(ops[t])].op = "recv"
                  /\ Decode(Received(t)).ok
                  /\ result[t].value = RStrip(Decode(Received(t)).text, <<10>>)

C4_Witness ==
    \E t \in active :
        /\ Done(t, "query") /\ arg[t] = RstCmd
        /\ result[t].status = "return" /\ result[t].value # <<>>

\* C5: connect returns successfully only after the socket has been established
\* and exactly one identification query has been sent on it and answered; the
\* identification query is the first thing sent on the connection.
C5_ConnectIdentifies ==
    \A t \in active :
        (Done(t, "connect") /\ result[t].status = "return") =>
            /\ Len(ops[t]) >= 3
            /\ ops[t][1].op = "create" /\ ops[t][1].out = "ok"
            /\ ops[t][1].sock = handle /\ Live(handle)
            /\ ops[t][2].op = "sendall" /\ ops[t][2].out = "ok"
            /\ ops[t][2].sock = handle
            /\ ops[t][2].data = IdnQueryBytes
            /\ Attempts(t, "sendall") = {2}
            /\ Attempts(t, "create") = {1}
            /\ \A i \in 3..Len(ops[t]) :
                  /\ ops[t][i].op = "recv"
                  /\ ops[t][i].sock = handle
                  /\ ops[t][i].out = "ok"

C5_Witness ==
    \E t \in active :
        /\ Done(t, "connect") /\ result[t].status = "return"
        /\ resp[t] # <<>>

\* C6: when the underlying connect times out or the socket layer reports an
\* error, connect raises the one instrument-link error type for both, and the
\* error raised carries the exception that caused it.
C6_ConnectFailureWrapped ==
    \A t \in active :
        (Done(t, "connect") /\ Len(ops[t]) = 1) =>
            /\ ops[t][1].op = "create"
            /\ ops[t][1].out \in {"socket.timeout", "socket.error"}
            /\ result[t].status = "raise"
            /\ result[t].exc.type = "SocketInstrumentError"
            /\ result[t].exc.context = ops[t][1].out

C6_Witness ==
    \E t \in active :
        /\ Done(t, "connect") /\ Len(ops[t]) = 1
        /\ ops[t][1].out = "socket.timeout"
        /\ result[t].exc.type = "SocketInstrumentError"

\* C7: send(command) writes all bytes of command plus the terminator; a
\* timeout or socket error of the write makes it raise the instrument-link
\* error for sending; any other exception leaves send as it was raised.
C7_SendErrors ==
    \A t \in active :
        Done(t, "send") =>
            IF ops[t] = <<>>
            THEN /\ result[t].status = "raise"
                 /\ result[t].exc = Exc("AttributeError")
            ELSE /\ Len(ops[t]) = 1
                 /\ ops[t][1].op = "sendall"
                 /\ ops[t][1].data = Encode(arg[t]) \o <<10>>
                 /\ ops[t][1].out = "ok" <=> result[t].status = "return"
                 /\ ops[t][1].out \in {"socket.timeout", "socket.error"} =>
                       /\ result[t].status = "raise"
                       /\ result[t].exc.type = "SocketInstrumentError"
                       /\ result[t].exc.context = ops[t][1].out
                       /\ result[t].exc.cmd = arg[t]
                       /\ result[t].exc.msg \in
                              {"Socket timeout while sending command {} to instrument.",
                               "Socket error while sending command {} to instrument."}

C7_Witness ==
    \E t \in active :
        /\ Done(t, "send") /\ arg[t] = RstCmd
        /\ result[t].status = "raise"
        /\ result[t].exc.type = "AttributeError"

\* C10: the link never retries. A call attempts each of connect, send, shutdown
\* and close at most once; the first socket operation that fails is the last
\* operation of the call, which raises; and a read is followed by another read
\* only when it filled the buffer.
C10_NoRetry ==
    \A t \in active :
        /\ \A o \in {"create", "sendall", "shutdown", "close"} :
              Cardinality(Attempts(t, o)) <= 1
        /\ \A i \in 1..Len(ops[t]) :
              ops[t][i].out # "ok" =>
                  /\ i = Len(ops[t])
                  /\ pc[t] = "done" /\ result[t].status = "raise"
        /\ \A i \in Attempts(t, "create") : i = 1
        /\ \A i \in Attempts(t, "recv") : \A j \in Attempts(t, "recv") :
              i < j => ops[t][i].out = "ok" /\ Len(ops[t][i].data) = BufSize

C10_Witness ==
    \E t \in active :
        /\ Done(t, "query") /\ Len(ops[t]) = 2
        /\ ops[t][1].out = "ok"
        /\ ops[t][2].op = "recv" /\ ops[t][2].out = "socket.timeout"
        /\ result[t].status = "raise"

\* the positions in thread t's call at which a recv returned bytes (or none)
Reads(t) == {i \in Attempts(t, "recv") : ops[t][i].out = "ok"}

\* C8: receive() reads chunk after chunk, goes on after every read that fills
\* the buffer, and stops exactly at the first read that returns fewer bytes
\* than the buffer size; it returns all chunks read, concatenated in arrival
\* order, without the trailing terminator characters.
C8_ReceiveStopsAtShortRead ==
    \A t \in active :
        op[t] \in {"recv", "query"} =>
            /\ \A i \in Reads(t) : \A j \in Reads(t) :
                  i < j => Len(ops[t][i].data) = BufSize
            /\ pc[t] = "recv" =>
                  \A i \in Reads(t) : Len(ops[t][i].data) = BufSize
            /\ (pc[t] = "done" /\ result[t].status = "return") =>
                  /\ Len(ops[t]) \in Reads(t)
                  /\ Len(ops[t][Len(ops[t])].data) < BufSize
                  /\ result[t].value = RStrip(Decode(Received(t)).text, <<10>>)

\* each blocking recv returns or raises within the socket timeout that
\* create_connection sets
SpecLive == Spec /\ \A t \in Threads : WF_vars(Recv(t))

\* C9: receive() always terminates. A call never makes more reads than the
\* response has bytes, plus one; a read that yields no bytes (the peer closed,
\* also right after a chunk that filled the buffer) ends the loop and the call
\* returns; a read that times out ends the call with the receive error; and a
\* call that is receiving eventually returns or raises, whatever the length
\* of the response.
C9_ReceiveTerminates ==
    /\ [](\A t \in Threads : Cardinality(Attempts(t, "recv")) <= MaxResp + 1)
    /\ [](\A t \in Threads : \A i \in Attempts(t, "recv") :
            /\ (ops[t][i].out = "ok" /\ ops[t][i].data = <<>>) =>
                  /\ i = Len(ops[t])
                  /\ pc[t] = "done" /\ result[t].status = "return"
            /\ ops[t][i].out = "socket.timeout" =>
                  /\ i = Len(ops[t])
                  /\ pc[t] = "done" /\ result[t].status = "raise"
                  /\ result[t].exc.type = "SocketInstrumentError"
                  /\ result[t].exc.msg =
                         "Socket timeout while receiving response from instrument.")
    /\ \A t \in Threads : (pc[t] = "recv") ~> (pc[t] = "done")

\* the response filled the buffer exactly and the next read found the peer closed
C9_Witness ==
    \E t \in active :
        /\ Done(t, "recv") /\ result[t].status = "return"
        /\ Len(ops[t]) = 2
        /\ Len(ops[t][1].data) = BufSize
        /\ ops[t][2].op = "recv" /\ ops[t][2].out = "ok" /\ ops[t][2].data = <<>>

----------------------------------------------------------------------------
(* Two threads on one object *)

\* the result is the error _recv raises for a socket error or a timeout
ReceiveError(r) ==
    /\ r.status = "raise"
    /\ r.exc.type = "SocketInstrumentError"
    /\ r.exc.msg \in
           {"Socket error while receiving response from instrument.",
            "Socket timeout while receiving response from instrument."}

\* C11: a receive that is pending when another thread closes the link ends
\* with the receive error of the link, never with a normal response
C11_CloseEndsPendingReceive ==
    \A t \in Threads :
        (pc[t] = "done" /\ \E i \in 1..Len(ops[t]) : ops[t][i].op = "unblock")
            => ReceiveError(result[t])

\* C12: when the callers let one call run at a time, a query returns the
\* response to its own command and no byte that answers another caller's
\* command
C12_SerializedQueryOwnResponse ==
    \A t \in Threads :
        (pc[t] = "done" /\ op[t] = "query" /\ result[t].status = "return")
            => \A i \in 1..Len(ops[t]) : ops[t][i].for \subseteq {t}

----------------------------------------------------------------------------
(* The comparator: WifiRvrTest.pass_fail_check and                          *)
(* CoexPerformanceBaseTest.throughput_pass_fail_check.  Attenuations and    *)
(* throughputs are integers; limits are kept in hundredths, so that         *)
(* x * pct_tolerance / 100 is exact.                                        *)

MaxRef == 3
MaxPts == 2
MaxLevels == 2

Abs(x) == IF x < 0 THEN 0 - x ELSE x

Max(a, b) == IF a > b THEN a ELSE b

\* attenuation plus the fixed offset, per point of dataset d
total_attenuation(d) ==
    [i \in 1..Len(d.attenuation) |-> d.attenuation[i] + d.fixed_attenuation]

\* [abs(current_att - gldn_att) for gldn_att in gldn_attenuation]
att_distances(current_att, gldn_attenuation) ==
    [i \in 1..Len(gldn_attenuation) |-> Abs(current_att - gldn_attenuation[i])]

\* an insertion that puts i before the entries at the same distance
InsertBeforeEqual(sd, i, d) ==
    LET c == Cardinality({j \in 1..Len(sd) : d[sd[j]] < d[i]})
    IN  SubSeq(sd, 1, c) \o <<i>> \o SubSeq(sd, c + 1, Len(sd))
\* i put into the index list sd, sorted by distance d, behind the entries that
\* are not farther: the sort is stable
Insert(sd, i, d) ==
    LET c == Cardinality({j \in 1..Len(sd) : d[sd[j]] <= d[i]})
    IN  SubSeq(sd, 1, c) \o <<i>> \o SubSeq(sd, c + 1, Len(sd))

RECURSIVE SortedUpTo(_, _)
SortedUpTo(d, n) ==
    IF n = 0 THEN <<>> ELSE Insert(SortedUpTo(d, n - 1), n, d)

\* sorted(enumerate(att_distances), key=lambda x: x[1]), as the indices
\* (counted from 1) in sorted order
sorted_distances(d) == SortedUpTo(d, Len(d))

\* a slice seq[0:k]
Slice(seq, k) == SubSeq(seq, 1, Min(k, Len(seq)))

\* the number of reference points a check takes
K(t) == IF t = "rvr" THEN 2 ELSE 3

\* [dist[0] for dist in sorted_distances[0:k]]
closest_indeces(t, current_att, gldn) ==
    Slice(sorted_distances(att_distances(current_att, total_attenuation(gldn))),
          K(t))

\* list.sort() of the throughputs at the chosen indices
closest_throughputs(gldn, closest) ==
    LET thr == [i \in 1..Len(closest) |-> gldn.throughput[closest[i]]]
    IN  [i \in 1..Len(thr) |-> thr[sorted_distances(thr)[i]]]

\* a sort of the dataset's own throughput list
SortedInPlace(gldn, closest) ==
    [gldn EXCEPT !.throughput =
        [i \in 1..Len(@) |-> @[sorted_distances(@)[i]]]]
\* the reference dataset behind one pass of the loop: closest_throughputs is
\* a list of its own, so list.sort() reorders that list and not the dataset
AfterPass(gldn, closest) == gldn

\* max(abs_tolerance, x * pct_tolerance / 100), in hundredths
Tolerance(x, p) == Max(100 * p.abs_tolerance, x * p.pct_tolerance)

\* a lower limit that is not floored at 0
LowerLimitNoFloor(ct, p) == 100 * ct[1] - Tolerance(ct[1], p)
\* max(closest_throughputs[0] - max(abs_tolerance, ...), 0), in hundredths
LowerLimit(ct, p) == Max(100 * ct[1] - Tolerance(ct[1], p), 0)

\* the last of the sorted throughputs: closest_throughputs[1] in the plain
\* check, closest_throughputs[-1] in the coexistence check
Top(t, ct) == IF t = "rvr" THEN ct[2] ELSE ct[Len(ct)]

\* an upper limit that takes the tolerance off
UpperLimitLess(t, ct, p) == 100 * Top(t, ct) - Tolerance(Top(t, ct), p)
\* closest_throughputs[top] + max(abs_tolerance, ...), in hundredths
UpperLimit(t, ct, p) == 100 * Top(t, ct) + Tolerance(Top(t, ct), p)

\* whether building the limits raises IndexError
LimitsRaise(t, gldn) ==
    Len(gldn.attenuation) < (IF t = "rvr" THEN 2 ELSE 1)

\* the test that makes a point a failure: the plain check compares the
\* distances to the limits with abs_tolerance, the coexistence check compares
\* the throughput with the limits
Beyond(t, thr, lower, upper, p) ==
    IF t = "rvr"
    THEN \/ 100 * thr - lower < 0 - 100 * p.abs_tolerance
         \/ 100 * thr - upper > 100 * p.abs_tolerance
    ELSE 100 * thr < lower \/ 100 * thr > upper

\* the point (current_att, thr) compared with the reference dataset
Compare(t, current_att, thr, gldn, p) ==
    LET closest == closest_indeces(t, current_att, gldn)
        ct == closest_throughputs(gldn, closest)
        lower == LowerLimit(ct, p)
        upper == UpperLimit(t, ct, p)
    IN  Point(current_att, thr, closest, lower, upper,
              Beyond(t, thr, lower, upper, p))

----------------------------------------------------------------------------
(* Inputs of a check *)

RefAttenuations == {0, 20}
RefOffsets == {0, 10}
RefThroughputs == {4, 100}
MeasuredThroughputs == {0, 90, 110, 112}

\* the reference datasets of n points
Datasets(n) ==
    {Dataset("ok", att, fx, thr) :
        att \in [1..n -> RefAttenuations], fx \in RefOffsets,
        thr \in [1..n -> RefThroughputs]}

\* what the reference file of a test can be
References ==
    UNION {Datasets(n) : n \in 0..MaxRef}
        \cup {Dataset("missing", <<>>, 0, <<>>),
              Dataset("malformed", <<>>, 0, <<>>)}

\* the configurations of a check; the plain check has no failure count
TestParams(t) ==
    [abs_tolerance : {0, 5}, pct_tolerance : {0, 10},
     failure_count_tolerance : IF t = "rvr" THEN {0} ELSE {0, 1, 2}]

\* a check is about to run on a measured sweep: a sweep of its own, or the
\* reference dataset itself
InitCmp ==
    /\ LinkStart([t \in Threads |-> {}], FALSE)
    /\ test \in {"rvr", "coex"}
    /\ test_params \in TestParams(test)
    /\ gldn_results \in References
    /\ identity \in IF gldn_results.file = "ok" THEN BOOLEAN ELSE {FALSE}
    /\ num_points \in IF identity THEN {Len(gldn_results.attenuation)}
                     ELSE 0..MaxPts
    /\ num_levels \in IF test = "rvr" THEN {1} ELSE 0..MaxLevels
    /\ cpc = "start"
    /\ bt_atten = 0
    /\ idx = 0
    /\ failure_count = 0
    /\ point = NoPoint
    /\ verdict = NoVerdict
    /\ NoUtil

\* rvr_result["attenuation"][i] + rvr_result["fixed_attenuation"] of the
\* measured sweep: steps of 10 dB from 0, behind a fixed 10 dB
current_att(i) ==
    IF identity THEN total_attenuation(gldn_results)[i]
    ELSE 10 * (i - 1) + 10

\* the throughputs the measured sweep can hold at point i
current_throughputs(i) ==
    IF identity THEN {gldn_results.throughput[i]} ELSE MeasuredThroughputs

----------------------------------------------------------------------------
(* Steps of the checks *)

Ended(v) ==
    /\ cpc' = "done"
    /\ verdict' = v

\* pass_fail_check: open the golden file and load it
RvrOpen ==
    /\ cpc = "start" /\ test = "rvr"
    /\ IF gldn_results.file = "missing"
       THEN Ended(Verdict("error", "FileNotFoundError", "none", "none"))
       ELSE IF gldn_results.file = "malformed"
       THEN Ended(Verdict("error", "ValueError", "none", "none"))
       ELSE cpc' = "point" /\ UNCHANGED verdict
    /\ bt_atten' = 1
    /\ UNCHANGED <<link, utils, check_in, idx, failure_count, point>>

\* pass_fail_check: one pass of the loop over the measured throughputs
RvrPoint ==
    /\ cpc = "point" /\ test = "rvr"
    /\ idx < num_points
    /\ \E thr \in current_throughputs(idx + 1) :
         IF LimitsRaise(test, gldn_results)
         THEN /\ Ended(Verdict("error", "IndexError", "none", "none"))
              /\ UNCHANGED <<idx, point, gldn_results>>
         ELSE LET pt == Compare(test, current_att(idx + 1), thr,
                                gldn_results, test_params)
              IN  /\ point' = pt
                  /\ gldn_results' = AfterPass(gldn_results, pt.closest)
                  /\ idx' = idx + 1
                  /\ IF pt.failed
                     THEN Ended(Verdict("fail", "None", "none", "none"))
                     ELSE UNCHANGED <<cpc, verdict>>
    /\ UNCHANGED <<link, utils, check_cfg, bt_atten, failure_count>>

\* pass_fail_check: asserts.explicit_pass behind the loop
RvrPass ==
    /\ cpc = "point" /\ test = "rvr"
    /\ idx = num_points
    /\ Ended(Verdict("pass", "None", "none", "none"))
    /\ UNCHANGED <<link, utils, check_in, bt_atten, idx, failure_count, point>>

\* performance_baseline_check: `if self.rvr:`
BaselineCheck ==
    /\ cpc = "start" /\ test = "coex"
    /\ IF num_levels = 0
       THEN Ended(Verdict("none", "None", "none", "False"))
       ELSE cpc' = "limits" /\ UNCHANGED verdict
    /\ UNCHANGED <<link, utils, check_in, bt_atten, idx, failure_count, point>>

\* throughput_pass_fail_check: find the performance file and build the limits
\* of every point; what this raises is caught and logged
ThroughputLimits ==
    /\ cpc = "limits"
    /\ IF gldn_results.file = "missing"
       THEN Ended(Verdict("none", "IndexError", "None", "True"))
       ELSE IF gldn_results.file = "malformed"
       THEN Ended(Verdict("none", "ValueError", "None", "True"))
       ELSE IF num_points > 0 /\ LimitsRaise(test, gldn_results)
       THEN Ended(Verdict("none", "IndexError", "None", "True"))
       ELSE cpc' = "point" /\ UNCHANGED verdict
    /\ bt_atten' = 1
    /\ UNCHANGED <<link, utils, check_in, idx, failure_count, point>>

\* throughput_pass_fail_check: one pass of the loop over the points of a level
CoexPoint ==
    /\ cpc = "point" /\ test = "coex"
    /\ idx < num_points
    /\ \E thr \in current_throughputs(idx + 1) :
         LET pt == Compare(test, current_att(idx + 1), thr,
                           gldn_results, test_params)
         IN  /\ point' = pt
             /\ gldn_results' = AfterPass(gldn_results, pt.closest)
             /\ failure_count' = IF pt.failed THEN failure_count + 1
                                 ELSE failure_count
    /\ idx' = idx + 1
    /\ UNCHANGED <<link, utils, check_cfg, cpc, bt_atten, verdict>>

\* a test that lets the count reach the tolerance
TooManyAbove(count, p) == count > p.failure_count_tolerance
\* if failure_count >= self.test_params["failure_count_tolerance"]
TooMany(count, p) == count >= p.failure_count_tolerance

\* a count that every level starts from 0
CountFromZero(count) == 0
\* the count the next level starts with: failure_count = 0 stands before the
\* loop over the levels, not in it
CountCarried(count) == count

\* throughput_pass_fail_check: the test behind the points of a level
LevelEnd ==
    /\ cpc = "point" /\ test = "coex"
    /\ idx = num_points
    /\ IF TooMany(failure_count, test_params)
       THEN /\ Ended(Verdict("none", "None", "False", "True"))
            /\ UNCHANGED <<bt_atten, idx, point, failure_count>>
       ELSE IF bt_atten < num_levels
       THEN /\ bt_atten' = bt_atten + 1
            /\ idx' = 0
            /\ point' = NoPoint
            /\ failure_count' = CountCarried(failure_count)
            /\ UNCHANGED <<cpc, verdict>>
       ELSE /\ Ended(Verdict("none", "None", "None", "True"))
            /\ UNCHANGED <<bt_atten, idx, point, failure_count>>
    /\ UNCHANGED <<link, utils, check_in>>

NextCmp ==
    \/ RvrOpen
    \/ RvrPoint
    \/ RvrPass
    \/ BaselineCheck
    \/ ThroughputLimits
    \/ CoexPoint
    \/ LevelEnd

SpecCmp == InitCmp /\ [][NextCmp]_vars

----------------------------------------------------------------------------
(* Claims about the comparator *)

\* a point has been compared and its limits are in `point`
Compared == point.closest # <<>>

\* the reference points chosen for the point compared last
Chosen == {point.closest[a] : a \in 1..Len(point.closest)}

\* the distance in effective attenuation from the point compared last to
\* reference point i
Distance(i) ==
    Abs(point.att - (gldn_results.attenuation[i]
                         + gldn_results.fixed_attenuation))

\* reference point i is nearer than j, or as near and earlier in the sequence
Nearer(i, j) ==
    Distance(i) < Distance(j) \/ (Distance(i) = Distance(j) /\ i < j)

SetMin(S) == CHOOSE x \in S : \A y \in S : x <= y
SetMax(S) == CHOOSE x \in S : \A y \in S : x >= y

\* the throughputs of the reference points chosen
ChosenThroughputs == {gldn_results.throughput[i] : i \in Chosen}

\* C14: the limits of a point are lower = max(0, m - max(abs_tolerance,
\* m * pct_tolerance / 100)) and upper = M + max(abs_tolerance,
\* M * pct_tolerance / 100), m and M the least and the greatest throughput of
\* the reference points chosen; throughputs 80 and 100 with abs_tolerance 5
\* and pct_tolerance 10 give [72, 110]
C14_ToleranceBand ==
    /\ Compared =>
          LET m == SetMin(ChosenThroughputs)
              M == SetMax(ChosenThroughputs)
              abs100 == 100 * test_params.abs_tolerance
              pct == test_params.pct_tolerance
          IN  /\ point.lower
                    = Max(0, 100 * m - Max(abs100, m * pct))
              /\ point.upper = 100 * M + Max(abs100, M * pct)
    /\ \A t \in {"rvr", "coex"} :
          LET pt == Compare(t, 0, 0, Dataset("ok", <<0, 10>>, 0, <<100, 80>>),
                            [abs_tolerance |-> 5, pct_tolerance |-> 10,
                             failure_count_tolerance |-> 1])
          IN  pt.lower = 7200 /\ pt.upper = 11000

\* a point whose lower limit is floored at 0 and whose upper limit comes from
\* the percentage
C14_Witness ==
    /\ Compared
    /\ point.lower = 0
    /\ SetMin(ChosenThroughputs) > 0
    /\ point.upper = 11000

\* C15: in both checks a point counts as failing exactly when its throughput
\* is below the lower or above the upper limit; a throughput equal to a limit
\* passes
C15_FailsIffOutsideBand ==
    Compared =>
        (point.failed <=> \/ 100 * point.throughput < point.lower
                          \/ 100 * point.throughput > point.upper)

\* what the caller of a check can see of its end
Seen(v) == <<v.signal, v.tpfc, v.baseline>>

PassSeen(t) ==
    IF t = "rvr" THEN <<"pass", "none", "none">> ELSE <<"none", "None", "True">>

\* what the caller sees when points are beyond their limits
FailSeen(t) ==
    IF t = "rvr" THEN <<"fail", "none", "none">> ELSE <<"none", "False", "True">>

\* C17: with the reference file missing or malformed the check ends in a way
\* the caller can tell from a fail and from a pass
C17_ReferenceUnavailableDistinct ==
    (cpc = "done" /\ gldn_results.file # "ok")
        => Seen(verdict) \notin {PassSeen(test), FailSeen(test)}

\* C18: a sweep without points is not passed: the plain check with an empty
\* throughput list does not end in an explicit pass, and the coexistence
\* baseline check with an empty result returns False
C18_EmptySweepNotPassed ==
    cpc = "done" =>
        /\ (test = "rvr" /\ gldn_results.file = "ok" /\ num_points = 0)
              => verdict.signal # "pass"
        /\ (test = "coex" /\ num_levels = 0) => verdict.baseline = "False"

\* C19: compared with itself, every point of a reference dataset lies within
\* its own limits
C19_IdentitySweepPasses ==
    (identity /\ Compared)
        => /\ point.lower <= 100 * point.throughput
           /\ 100 * point.throughput <= point.upper
           /\ ~point.failed

AbsTolerances == {0, 5, 20}

\* the limits of the point compared last under abs_tolerance a
LimitsUnder(a) ==
    Compare(test, point.att, point.throughput, gldn_results,
            [test_params EXCEPT !.abs_tolerance = a])

\* C20: with pct_tolerance, reference data and point fixed, a greater
\* abs_tolerance gives a band that is not narrower, an upper limit that is
\* not lower and a lower limit that is not higher
C20_BandMonotone ==
    Compared =>
        \A under \in {[a \in AbsTolerances |-> LimitsUnder(a)]} :
            /\ under[test_params.abs_tolerance].lower = point.lower
            /\ under[test_params.abs_tolerance].upper = point.upper
            /\ \A a, b \in AbsTolerances :
                  a <= b =>
                     /\ under[b].upper >= under[a].upper
                     /\ under[b].lower <= under[a].lower
                     /\ under[b].upper - under[b].lower
                           >= under[a].upper - under[a].lower

\* a point whose band grows on both sides when abs_tolerance goes from its
\* value to 20
C20_Witness ==
    /\ Compared
    /\ LimitsUnder(20).upper > point.upper
    /\ LimitsUnder(20).lower < point.lower

C22_ReturnsTrueOrFalse ==
    (cpc = "done" /\ verdict.tpfc # "none") =>
        verdict.tpfc =
            IF /\ verdict.exc = "None"
               /\ failure_count < test_params.failure_count_tolerance
            THEN "True" ELSE "False"

----------------------------------------------------------------------------
(* The RSSI accuracy check: WifiRssiTest.pass_fail_check_rssi_accuracy.     *)
(* Readings are whole dB or nan; averages are kept as fractions.  The      *)
(* metric loggers the check writes the averages to are left out.           *)

MaxReadings == 2

\* the errors a reading can show
ErrorValues == {RSSI_ERROR_VAL, Float(0, 1), Float(3, 1)}

\* val["error"] of a metric: one error per point of the sweep
ErrorLists == UNION {[1..n -> ErrorValues] : n \in 0..MaxReadings}

\* "rssi" in key and "predicted" not in key
IsMetric(key) ==
    key \in {"signal_poll_rssi", "signal_poll_avg_rssi", "scan_rssi",
             "chain_0_rssi", "chain_1_rssi"}

\* math.isnan(x)
isnan(x) == x.nan

\* [x for x in val["error"] if not math.isnan(x)]
filtered_error(val) == SelectSeq(val, LAMBDA x : ~isnan(x))

RECURSIVE SumOf(_, _)
SumOf(f, n) == IF n = 0 THEN 0 ELSE SumOf(f, n - 1) + f[n]

\* statistics.mean(filtered_error)
mean(fe) == Float(SumOf([i \in 1..Len(fe) |-> fe[i].num], Len(fe)), Len(fe))

\* statistics.mean([abs(x) for x in filtered_error])
mean_abs(fe) ==
    Float(SumOf([i \in 1..Len(fe) |-> Abs(fe[i].num)], Len(fe)), Len(fe))

\* statistics.mean([abs(x - avg_shift) for x in filtered_error]), with
\* avg_shift the mean of filtered_error: |x - S/n| is |n*x - S| / n
mean_centered(fe) ==
    LET n == Len(fe)
        S == mean(fe).num
    IN  Float(SumOf([i \in 1..n |-> Abs(n * fe[i].num - S)], n), n * n)

\* the average error of a metric: nan when no reading is valid
avg_error(val, absolute_accuracy) ==
    IF filtered_error(val) = <<>> THEN RSSI_ERROR_VAL
    ELSE IF absolute_accuracy THEN mean_abs(filtered_error(val))
    ELSE mean_centered(filtered_error(val))

\* the average shift of a metric
avg_shift(val) ==
    IF filtered_error(val) = <<>> THEN RSSI_ERROR_VAL
    ELSE mean(filtered_error(val))

\* x > tolerance, which is false of nan
Greater(x, tolerance) == ~x.nan /\ x.num > tolerance * x.den

\* a failure test that leaves nan out
rssi_failureNoNan(error, tolerance) == Greater(error, tolerance)
\* (avg_error > self.test_params["abs_tolerance"]) or math.isnan(avg_error)
rssi_failure(error, tolerance) == Greater(error, tolerance) \/ isnan(error)

\* what the message says of a metric
Outcome(key, failure, under_test) ==
    IF failure /\ key \in under_test THEN "failed"
    ELSE IF failure THEN "failed (ignored)"
    ELSE "passed"

\* a check is about to run
InitRssi ==
    /\ LinkStart([t \in Threads |-> {}], FALSE)
    /\ NoCheck
    /\ rssi_args \in
         [rssi_under_test : SUBSET {k \in {ResultKeys[i] : i \in 1..Len(ResultKeys)} :
                                       IsMetric(k)},
          absolute_accuracy : BOOLEAN,
          abs_tolerance : {1, 3}]
    /\ rssi = [pc |-> "loop", key |-> 0, val |-> <<>>,
               avg_error |-> Float(0, 1), avg_shift |-> Float(0, 1),
               test_message |-> <<>>, test_failed |-> FALSE,
               signal |-> "none"]
    /\ NoSession
    /\ NoRange
    /\ NoSweep

\* one pass of the loop over postprocessed_results.items()
RssiKey ==
    /\ rssi.pc = "loop"
    /\ rssi.key < Len(ResultKeys)
    /\ LET key == ResultKeys[rssi.key + 1]
       IN  IF IsMetric(key)
           THEN \E val \in ErrorLists :
                  LET error == avg_error(val, rssi_args.absolute_accuracy)
                      failure == rssi_failure(error, rssi_args.abs_tolerance)
                      said == Outcome(key, failure, rssi_args.rssi_under_test)
                  IN  rssi' = [rssi EXCEPT
                          !.key = @ + 1,
                          !.val = val,
                          !.avg_error = error,
                          !.avg_shift = avg_shift(val),
                          !.test_message =
                              Append(@, [key |-> key, outcome |-> said]),
                          !.test_failed = @ \/ said = "failed"]
           ELSE rssi' = [rssi EXCEPT !.key = @ + 1, !.val = <<>>]
    /\ UNCHANGED <<link, check_in, check_run, rssi_args, session, atten_range,
                   sweep>>

\* asserts.fail or asserts.explicit_pass behind the loop
RssiEnd ==
    /\ rssi.pc = "loop"
    /\ rssi.key = Len(ResultKeys)
    /\ rssi' = [rssi EXCEPT
           !.pc = "done",
           !.signal = IF rssi.test_failed THEN "fail" ELSE "pass"]
    /\ UNCHANGED <<link, check_in, check_run, rssi_args, session, atten_range,
                   sweep>>

NextRssi ==
    \/ RssiKey
    \/ RssiEnd

SpecRssi == InitRssi /\ [][NextRssi]_vars

\* the message entries that say a listed metric failed
FailedEntries ==
    {i \in 1..Len(rssi.test_message) : rssi.test_message[i].outcome = "failed"}

\* a metric has no valid reading, or the average error of its valid readings
\* is greater than abs_tolerance
OutOfTolerance(val) ==
    \/ \A i \in 1..Len(val) : val[i].nan
    \/ Greater(avg_error(val, rssi_args.absolute_accuracy),
               rssi_args.abs_tolerance)

\* C23: the RSSI accuracy check fails the test exactly when a metric listed in
\* rssi_under_test has no valid reading or an average error greater than
\* abs_tolerance; a metric out of tolerance that is not listed is reported as
\* ignored and does not fail the test.
C23_RssiAccuracyVerdict ==
    /\ (rssi.key >= 1 /\ IsMetric(ResultKeys[rssi.key])) =>
          LET key == ResultKeys[rssi.key]
              said == rssi.test_message[Len(rssi.test_message)]
          IN  /\ said.key = key
              /\ said.outcome = "failed" <=>
                    (key \in rssi_args.rssi_under_test
                        /\ OutOfTolerance(rssi.val))
              /\ said.outcome = "failed (ignored)" <=>
                    (key \notin rssi_args.rssi_under_test
                        /\ OutOfTolerance(rssi.val))
    /\ rssi.test_failed <=> FailedEntries # {}
    /\ rssi.pc = "done" =>
          rssi.signal = IF FailedEntries # {} THEN "fail" ELSE "pass"

\* a check has failed on one listed metric, with another metric out of
\* tolerance reported as ignored
C23_Witness ==
    /\ rssi.pc = "done" /\ rssi.signal = "fail"
    /\ \E i \in 1..Len(rssi.test_message) :
          rssi.test_message[i].outcome = "failed (ignored)"
    /\ Cardinality(FailedEntries) = 1

----------------------------------------------------------------------------
(* Sl4aSession.terminate: under _terminate_lock, a session that is not     *)
(* terminated yet is marked terminated, its event dispatcher is closed and *)
(* its RPC client terminated.                                              *)

MaxTerminate == 2

\* a session, terminated already (as the test sets it up) or not, and two
\* threads that call terminate
InitSession ==
    /\ LinkStart([t \in Threads |-> {}], FALSE)
    /\ NoCheck
    /\ NoRssi
    /\ NoRange
    /\ NoSweep
    /\ \E terminated \in BOOLEAN : session = Session(terminated, 0)

SessionStep(changes) ==
    /\ changes
    /\ UNCHANGED <<link, check_in, check_run, rssi_args, rssi, atten_range,
                   sweep>>

\* Sl4aSession.terminate(session) is called
Terminate(t) ==
    /\ session.at[t] = "idle"
    /\ session.made[t] < MaxTerminate
    /\ SessionStep(session' = [session EXCEPT
           !.at[t] = "lock",
           !.was[t] = session.terminated,
           !.made[t] = @ + 1])

\* with self._terminate_lock:
Acquire(t) ==
    /\ session.at[t] = "lock"
    /\ session.terminate_lock = "free"
    /\ SessionStep(session' = [session EXCEPT
           !.at[t] = "check",
           !.terminate_lock = t])

\* a test of the flag that lets every call through
NotTerminatedEver(flag) == TRUE
\* if not self._terminated
NotTerminated(flag) == ~flag

\* the test of the flag; a session not terminated yet is marked terminated
CheckTerminated(t) ==
    /\ session.at[t] = "check"
    /\ SessionStep(session' =
           IF NotTerminated(session.terminated)
           THEN [session EXCEPT !.at[t] = "close", !.terminated = TRUE]
           ELSE [session EXCEPT !.at[t] = "release"])

\* self._event_dispatcher.close()
DispatcherClose(t) ==
    /\ session.at[t] = "close"
    /\ SessionStep(session' = [session EXCEPT
           !.at[t] = "rpc",
           !.dispatcher_close = @ + 1])

\* self.rpc_client.terminate()
RpcTerminate(t) ==
    /\ session.at[t] = "rpc"
    /\ SessionStep(session' = [session EXCEPT
           !.at[t] = "release",
           !.rpc_terminate = @ + 1])

\* the end of the with block
Release(t) ==
    /\ session.at[t] = "release"
    /\ SessionStep(session' = [session EXCEPT
           !.at[t] = "idle",
           !.terminate_lock = "free"])

NextSession ==
    \E t \in Threads :
        \/ Terminate(t)
        \/ Acquire(t)
        \/ CheckTerminated(t)
        \/ DispatcherClose(t)
        \/ RpcTerminate(t)
        \/ Release(t)

SpecSession == InitSession /\ [][NextSession]_vars

----------------------------------------------------------------------------
(* Claims about failures of close and connect *)

\* C25: when shutdown or close of the socket raises inside close(), close()
\* raises that same exception, not wrapped, and the handle stays set; a
\* close() called while the handle is set attempts the shutdown (again).
C25_CloseFailureReraised ==
    /\ [](\A t \in active :
            /\ (Done(t, "close") /\ result[t].status = "raise") =>
                  /\ ops[t] # <<>>
                  /\ LET last == ops[t][Len(ops[t])]
                     IN  /\ last.op \in {"shutdown", "close"}
                         /\ last.out # "ok"
                         /\ result[t].exc = Exc(last.out)
                         /\ handle # None /\ handle = last.sock
            /\ (Done(t, "close") /\ ops[t] # <<>>) =>
                  ops[t][1].op = "shutdown" /\ ops[t][1].sock # None)
    /\ [][\A t \in active :
            (pc[t] = "idle" /\ op'[t] = "close" /\ handle # None) =>
                pc'[t] = "shutdown"]_vars

\* a close() has failed at the shutdown of a socket that an earlier close()
\* had closed without clearing the handle
C25_Witness ==
    \E t \in active :
        /\ Done(t, "close") /\ result[t].status = "raise"
        /\ Len(ops[t]) = 1
        /\ ops[t][1].op = "shutdown" /\ ops[t][1].st = "closed"
        /\ handle = ops[t][1].sock

\* C26: when connect raises, for whatever reason, the object holds no socket
\* afterwards: the handle is None and no socket it opened is left unclosed.
C26_FailedConnectHoldsNoSocket ==
    \A t \in active :
        (Done(t, "connect") /\ result[t].status = "raise") =>
            /\ handle = None
            /\ \A s \in Sockets : ~Live(s)

----------------------------------------------------------------------------
(* Claims about the levels of the coexistence check *)

\* the coexistence check stands behind the last point of a level
AtLevelEnd == cpc = "point" /\ test = "coex" /\ idx = num_points

C28_FewReferencePoints ==
    (gldn_results.file = "ok" /\ Len(gldn_results.attenuation) >= 1) =>
        /\ Compared =>
              Len(point.closest) = Min(K(test), Len(gldn_results.attenuation))
        /\ cpc = "done" => verdict.exc = "None"

----------------------------------------------------------------------------
(* get_atten_range(start, stop, step): attenuations are whole dB, so       *)
(* (stop - start) / float(step) is the fraction d / step.                  *)

MaxStart == 2
MaxStop == 7
MaxStep == 4

\* a rounding that goes up from any fraction
RoundUp(d, step) == IF d % step = 0 THEN d \div step ELSE d \div step + 1
\* int(round(d / float(step))): to the nearest integer, a half to the even one
Round(d, step) ==
    LET q == d \div step
        r == d % step
    IN  IF 2 * r < step THEN q
        ELSE IF 2 * r > step THEN q + 1
        ELSE IF q % 2 = 0 THEN q ELSE q + 1

\* the function is called
InitRange ==
    /\ LinkStart([t \in Threads |-> {}], FALSE)
    /\ NoCheck
    /\ NoRssi
    /\ NoSession
    /\ NoSweep
    /\ \E start \in 0..MaxStart, stop \in 0..MaxStop, step \in 1..MaxStep :
          atten_range = RangeCall(start, stop, step, "round")

RangeStep(changes) ==
    /\ changes
    /\ UNCHANGED <<link, check_in, check_run, rssi_args, rssi, session, sweep>>

\* atten_step = int(round((stop - start) / float(step)))
AttenStep ==
    /\ atten_range.pc = "round"
    /\ RangeStep(atten_range' = [atten_range EXCEPT
           !.pc = "list",
           !.atten_step = Round(atten_range.stop - atten_range.start,
                                atten_range.step)])

\* one element of [start + x * step for x in range(0, atten_step)]
AttenValue ==
    /\ atten_range.pc = "list"
    /\ atten_range.x < atten_range.atten_step
    /\ RangeStep(atten_range' = [atten_range EXCEPT
           !.value = Append(@, atten_range.start
                                   + atten_range.x * atten_range.step),
           !.x = @ + 1])

\* return atten_range
AttenReturn ==
    /\ atten_range.pc = "list"
    /\ atten_range.x >= atten_range.atten_step
    /\ RangeStep(atten_range' = [atten_range EXCEPT !.pc = "done"])

NextRange ==
    \/ AttenStep
    \/ AttenValue
    \/ AttenReturn

SpecRange == InitRange /\ [][NextRange]_vars

\* C29: with step > 0 and stop >= start, get_atten_range returns
\* round((stop - start) / step) values (the count is an integer nearest to
\* the quotient), which are start, start + step, start + 2 * step, ... in
\* increasing order, all of them >= start and < stop; the list is empty when
\* stop - start is less than half a step.
C29_AttenRange ==
    LET a == atten_range
        d == a.stop - a.start
        n == Len(a.value)
    IN  (a.pc = "done" /\ a.step > 0 /\ a.stop >= a.start) =>
            /\ 2 * Abs(n * a.step - d) <= a.step
            /\ \A i \in 1..n : a.value[i] = a.start + (i - 1) * a.step
            /\ \A i \in 1..n : a.start <= a.value[i] /\ a.value[i] < a.stop
            /\ \A i, j \in 1..n : i < j => a.value[i] < a.value[j]
            /\ 2 * d < a.step => a.value = <<>>

\* a call has returned two values where the quotient is 2.5
C29_Witness ==
    /\ atten_range.pc = "done"
    /\ 2 * (atten_range.stop - atten_range.start) = 5 * atten_range.step
    /\ Len(atten_range.value) = 2

----------------------------------------------------------------------------
(* The attenuation sweeps: WifiRvrTest.rvr_test and                         *)
(* CoexPerformanceBaseTest.rvr_throughput, one step per pass of the loop.   *)

MaxSweep == 3

\* the attenuation ranges swept: n steps from a start value
SweepRanges ==
    {[i \in 1..n |-> start + (i - 1) * step] :
        n \in 0..MaxSweep, start \in {0, 10}, step \in {10}}

\* the throughputs iperf reports
Throughputs == {0, 50}

\* a sweep is about to run
InitSweep ==
    /\ LinkStart([t \in Threads |-> {}], FALSE)
    /\ NoCheck
    /\ NoRssi
    /\ NoSession
    /\ NoRange
    /\ \E which \in {"rvr", "coex"}, range \in SweepRanges, flag \in BOOLEAN :
          sweep = IF which = "rvr"
                  THEN Sweep(which, "loop", range, 0, flag, FALSE)
                  ELSE Sweep(which, "loop", range, 10, FALSE, flag)

SweepStep(changes) ==
    /\ changes
    /\ UNCHANGED <<link, check_in, check_run, rssi_args, rssi, session,
                   atten_range>>

\* a measurement: the attenuator setting it ran at, whether the iperf client
\* ended or timed out, whether a result could be read, and the throughput
Measurement(atten, client, parse, throughput) ==
    [atten |-> atten, client |-> client, read |-> parse,
     throughput |-> throughput]

\* what reading the iperf result gives: the client's output is empty when the
\* client timed out, the server's log can hold anything
ParseOutcomes(client, client_output) ==
    IF client_output /\ client = "timeout" THEN {[read |-> FALSE, rate |-> 0]}
    ELSE {[read |-> FALSE, rate |-> 0]}
            \cup {[read |-> TRUE, rate |-> r] : r \in Throughputs}

\* rvr_result.append(curr_throughput), with curr_throughput = 0 when the
\* result could not be read
AppendThroughput(list, parse) ==
    Append(list, IF parse.read THEN parse.rate ELSE 0)

\* rvr_test: one pass of the loop over rvr_atten_range; what is raised
\* outside its two try blocks ends the sweep
RvrTestStep ==
    /\ sweep.test = "rvr" /\ sweep.pc = "loop"
    /\ Len(sweep.received) < Len(sweep.range)
    /\ LET atten == sweep.range[Len(sweep.received) + 1]
       IN  \/ SweepStep(sweep' = [sweep EXCEPT
                  !.set_atten = atten, !.pc = "raised"])
           \/ \E client \in {"ok", "timeout"} :
                \E parse \in ParseOutcomes(client, sweep.use_client_output) :
                  SweepStep(sweep' = [sweep EXCEPT
                      !.set_atten = atten,
                      !.received = AppendThroughput(@, parse),
                      !.measured = Append(@,
                          Measurement(atten, client, parse.read,
                                      IF parse.read THEN parse.rate ELSE 0))])

\* rvr_test: the attenuators are set to 0 and rvr_result is returned
RvrTestReturn ==
    /\ sweep.test = "rvr" /\ sweep.pc = "loop"
    /\ Len(sweep.received) = Len(sweep.range)
    /\ SweepStep(sweep' = [sweep EXCEPT
           !.set_atten = 0, !.pc = "done", !.returned = sweep.received])

\* rvr_throughput: one pass of the loop over wifi_atten_range.  The
\* attenuation is recorded first; a lost Wi-Fi connection or a failed
\* parallel function returns at once, an exception ends the sweep
CoexSweepStep ==
    /\ sweep.test = "coex" /\ sweep.pc = "loop"
    /\ Len(sweep.received) < Len(sweep.range)
    /\ LET atten == sweep.range[Len(sweep.received) + 1]
           recorded == Append(sweep.attenuation,
                              atten + sweep.fixed_attenuation)
       IN  \/ \E why \in {"wifi"} \cup
                        (IF sweep.called_func THEN {"func"} ELSE {}) :
                SweepStep(sweep' = [sweep EXCEPT
                    !.set_atten = atten,
                    !.attenuation = recorded,
                    !.measured = Append(@, Measurement(atten, why, FALSE, 0)),
                    !.pc = "done",
                    !.returned = sweep.received])
           \/ SweepStep(sweep' = [sweep EXCEPT
                  !.set_atten = atten,
                  !.attenuation = recorded,
                  !.pc = "raised"])
           \/ \E thr \in Throughputs :
                SweepStep(sweep' = [sweep EXCEPT
                    !.set_atten = atten,
                    !.attenuation = recorded,
                    !.received = Append(@, thr),
                    !.measured = Append(@, Measurement(atten, "ok", TRUE, thr))])

\* rvr_throughput: the attenuators are set to 0 and the lists are returned
CoexSweepReturn ==
    /\ sweep.test = "coex" /\ sweep.pc = "loop"
    /\ Len(sweep.received) = Len(sweep.range)
    /\ SweepStep(sweep' = [sweep EXCEPT
           !.set_atten = 0, !.pc = "done", !.returned = sweep.received])

NextSweep ==
    \/ RvrTestStep
    \/ RvrTestReturn
    \/ CoexSweepStep
    \/ CoexSweepReturn

SpecSweep == InitSweep /\ [][NextSweep]_vars

\* C30: the results of a sweep stay aligned with its attenuations: rvr_test
\* returns one throughput per attenuation step, in sweep order, with 0 for
\* a measurement that failed or timed out; and when rvr_throughput has
\* returned, by whatever path, the attenuation list it recorded is as long
\* as the throughput list it returned.
C30_SweepAligned ==
    sweep.pc = "done" =>
        IF sweep.test = "rvr"
        THEN /\ Len(sweep.returned) = Len(sweep.range)
             /\ \A i \in 1..Len(sweep.returned) :
                   /\ sweep.measured[i].atten = sweep.range[i]
                   /\ sweep.returned[i] = sweep.measured[i].throughput
                   /\ (\/ ~sweep.measured[i].read
                       \/ sweep.measured[i].client = "timeout") =>
                         sweep.returned[i] = 0
        ELSE Len(sweep.attenuation) = Len(sweep.returned)

====
